---- MODULE Spec2Model ----
(***************************************************************************)
(* spike-mastodon: the credential bootstrap of run() and the traversal of  *)
(* the home timeline's pages in show_timeline(), src/src/main.rs.          *)
(*                                                                         *)
(* The remote server and the mastodon_async Page object are the program's  *)
(* environment: the server is a feed of statuses 1..newest (higher is      *)
(* newer) served in pages, the Page object keeps the two page links.       *)
(***************************************************************************)
EXTENDS Integers, Sequences, FiniteSets, TLC

\* ------------------------------------------------------------------ bounds

\* The feed holds at most MaxFeed statuses.
MaxFeed == 5
\* The feed grows (statuses are appended) at most MaxGrow times in a run.
MaxGrow == 1
\* The server returns at most PageSize statuses per page.
PageSize == 2
\* The longest sequence of load_next_page / load_prev_page calls that the
\* generalised show_timeline of SpecCursor makes.
MaxScript == 3

Servers == {"a.example", "b.example"}

\* --------------------------------------------------------------- helpers

Max(a, b) == IF a >= b THEN a ELSE b

Min(a, b) == IF a <= b THEN a ELSE b

RECURSIVE Desc(_, _)
\* hi, hi-1, ..., lo (empty when hi < lo): a page lists newer statuses first.
Desc(hi, lo) == IF hi < lo THEN <<>> ELSE <<hi>> \o Desc(hi - 1, lo)

\* Result<(), anyhow::Error>: Display of an anyhow error prints its outermost
\* context (msg); the error it wraps (cause) is not printed.
Ok == [tag |-> "Ok", msg |-> "", cause |-> ""]

Err(m, c) == [tag |-> "Err", msg |-> m, cause |-> c]

Running == [tag |-> "Running", msg |-> "", cause |-> ""]

\* ------------------------------------------------------ the remote server

\* Option<Url>: a page link, None or a locator the server understands.
None == [rel |-> "none", id |-> 0]

MaxId(k) == [rel |-> "max_id", id |-> k]

MinId(k) == [rel |-> "min_id", id |-> k]

\* The statuses the server selects for a request on a feed 1..n: the newest
\* page without a locator, the page just older than max_id, the page just
\* newer than min_id.
Select(loc, n) ==
    CASE loc.rel = "max_id" -> Desc(loc.id - 1, Max(1, loc.id - PageSize))
      [] loc.rel = "min_id" -> Desc(Min(n, loc.id + PageSize), loc.id + 1)
      [] OTHER -> Desc(n, Max(1, n - PageSize + 1))

\* The Link header of a response. An empty page carries no links. Policy
\* "always": every non-empty page carries both links (the links of a Mastodon
\* server). Policy "bounded": a link is present only when a status exists on
\* that side.
LinkHeader(its, n, policy) ==
    IF its = <<>>
    THEN [next |-> None, prev |-> None]
    ELSE [next |-> IF policy = "always" \/ its[Len(its)] > 1
                   THEN MaxId(its[Len(its)]) ELSE None,
          prev |-> IF policy = "always" \/ its[1] < n
                   THEN MinId(its[1]) ELSE None]

\* The answer to a GET of loc. net = [fail, newest, policy]: whether the
\* transport (or the authorization) fails, and the server's feed and policy.
Respond(loc, net) ==
    IF net.fail
    THEN [status |-> "error", items |-> <<>>, next |-> None, prev |-> None]
    ELSE [status |-> "ok",
          items |-> Select(loc, net.newest),
          next |-> LinkHeader(Select(loc, net.newest), net.newest, net.policy).next,
          prev |-> LinkHeader(Select(loc, net.newest), net.newest, net.policy).prev]

\* ---------------------------------------------- mastodon_async::page::Page

\* Page<Status>: the two links and the items of the initial request.
NoPage == [next |-> None, prev |-> None, initial_items |-> <<>>]

\* Result<Option<Vec<Status>>>
RetErr == [tag |-> "Err", items |-> <<>>]

RetNone == [tag |-> "None", items |-> <<>>]

RetSome(its) == [tag |-> "Some", items |-> its]

\* What the Page does with the response to its request: an error leaves it
\* as it is; a page without data is Ok(None) and the links are not updated;
\* otherwise both links are replaced by the response's and the items are
\* returned.
turn_page(page, resp) ==
    IF resp.status = "error"
    THEN [page |-> page, ret |-> RetErr]
    ELSE IF resp.items = <<>> /\ resp.next = None /\ resp.prev = None
    THEN [page |-> page, ret |-> RetNone]
    ELSE [page |-> [page EXCEPT !.next = resp.next, !.prev = resp.prev],
          ret |-> RetSome(resp.items)]

\* Page::next_page: no link, no request and Ok(None).
next_page(page, net) ==
    IF page.next = None
    THEN [page |-> page, ret |-> RetNone]
    ELSE turn_page(page, Respond(page.next, net))

\* Page::prev_page
prev_page(page, net) ==
    IF page.prev = None
    THEN [page |-> page, ret |-> RetNone]
    ELSE turn_page(page, Respond(page.prev, net))

\* Mastodon::get_home_timeline: the request without a locator.
get_home_timeline(net) ==
    IF Respond(None, net).status = "error"
    THEN [page |-> NoPage, ret |-> RetErr]
    ELSE [page |-> [next |-> Respond(None, net).next,
                    prev |-> Respond(None, net).prev,
                    initial_items |-> Respond(None, net).items],
          ret |-> RetSome(Respond(None, net).items)]

\* ------------------------------------------------------------- the log

\* An event of the log: its level and message, the error it prints (reason: the
\* error's Display; cause: the chain below it, which only Debug prints) and
\* the uris or links it lists.
Event(lvl, m, r, c, its) ==
    [level |-> lvl, msg |-> m, reason |-> r, cause |-> c, uris |-> its]

\* #[instrument(err)]: a function that returns Err emits an error event with
\* the error's Display; spans lists the instrumented functions the error
\* passes through on its way up to main.
ErrEvents(spans, res) ==
    IF res.tag = "Err"
    THEN [i \in 1..Len(spans) |-> Event("error", spans[i], res.msg, "", <<>>)]
    ELSE <<>>

\* log_page_items without its warning: a page without data is logged like any
\* other.
log_page_items_silent(ret) ==
    <<Event("debug", "uri", "", "", ret.items)>>

\* log_page_items
log_page_items(ret) ==
    IF ret.tag = "None"
    THEN <<Event("warn", "the page loaded successfully, but there is no data", "", "", <<>>)>>
    ELSE <<Event("debug", "uri", "", "", ret.items)>>

\* log_page_links
log_page_links(page) ==
    <<Event("debug", "page links", "", "", <<page.prev.id, page.next.id>>)>>

\* ----------------------------------------------------- the page functions

\* load_home_timeline
load_home_timeline(net) ==
    IF get_home_timeline(net).ret.tag = "Err"
    THEN [timeline |-> NoPage,
          result |-> Err("Couldn't get timeline", "transport"),
          ret |-> RetErr,
          events |-> <<>>]
    ELSE [timeline |-> get_home_timeline(net).page,
          result |-> Ok,
          ret |-> get_home_timeline(net).ret,
          events |-> <<Event("info", "loaded initial page of home timeline", "", "", <<>>),
                       Event("debug", "uri", "", "", get_home_timeline(net).page.initial_items)>>]

\* load_next_page with the dead end: at the boundary the other link is taken.
load_next_page_dead_end(timeline, net) ==
    IF timeline.next = None
    THEN [timeline |-> [timeline EXCEPT !.prev = None],
          result |-> Err("no next page", "none"),
          ret |-> RetErr,
          events |-> <<>>]
    ELSE IF next_page(timeline, net).ret.tag = "Err"
    THEN [timeline |-> next_page(timeline, net).page,
          result |-> Err("Couldn't get next page", "transport"),
          ret |-> RetErr,
          events |-> <<>>]
    ELSE [timeline |-> next_page(timeline, net).page,
          result |-> Ok,
          ret |-> next_page(timeline, net).ret,
          events |-> <<Event("info", "loaded next page", "", "", <<timeline.next.id>>)>>
                     \o log_page_items(next_page(timeline, net).ret)]

\* load_next_page turning a copy of the Page: the caller's links stay.
load_next_page_on_copy(timeline, net) ==
    IF timeline.next = None
    THEN [timeline |-> timeline,
          result |-> Err("no next page", "none"),
          ret |-> RetErr,
          events |-> <<>>]
    ELSE IF next_page(timeline, net).ret.tag = "Err"
    THEN [timeline |-> timeline,
          result |-> Err("Couldn't get next page", "transport"),
          ret |-> RetErr,
          events |-> <<>>]
    ELSE [timeline |-> timeline,
          result |-> Ok,
          ret |-> next_page(timeline, net).ret,
          events |-> <<Event("info", "loaded next page", "", "", <<timeline.next.id>>)>>
                     \o log_page_items(next_page(timeline, net).ret)]

\* load_prev_page that drops the error of the request (no `?`).
load_prev_page_swallow(timeline, net) ==
    IF timeline.prev = None
    THEN [timeline |-> timeline,
          result |-> Err("no prev page", "none"),
          ret |-> RetErr,
          events |-> <<>>]
    ELSE IF prev_page(timeline, net).ret.tag = "Err"
    THEN [timeline |-> prev_page(timeline, net).page,
          result |-> Ok,
          ret |-> RetNone,
          events |-> log_page_items(RetNone)]
    ELSE [timeline |-> prev_page(timeline, net).page,
          result |-> Ok,
          ret |-> prev_page(timeline, net).ret,
          events |-> <<Event("info", "loaded prev page", "", "", <<timeline.prev.id>>)>>
                     \o log_page_items(prev_page(timeline, net).ret)]

\* load_prev_page that turns the page forward (next_page for prev_page).
load_prev_page_forward(timeline, net) ==
    IF timeline.prev = None
    THEN [timeline |-> timeline,
          result |-> Err("no prev page", "none"),
          ret |-> RetErr,
          events |-> <<>>]
    ELSE IF next_page(timeline, net).ret.tag = "Err"
    THEN [timeline |-> next_page(timeline, net).page,
          result |-> Err("Couldn't get prev page", "transport"),
          ret |-> RetErr,
          events |-> <<>>]
    ELSE [timeline |-> next_page(timeline, net).page,
          result |-> Ok,
          ret |-> next_page(timeline, net).ret,
          events |-> <<Event("info", "loaded prev page", "", "", <<timeline.prev.id>>)>>
                     \o log_page_items(next_page(timeline, net).ret)]

\* load_next_page: the result, the Page afterwards, what next_page returned
\* and the events logged.
load_next_page(timeline, net) ==
    IF timeline.next = None
    THEN [timeline |-> timeline,
          result |-> Err("no next page", "none"),
          ret |-> RetErr,
          events |-> <<>>]
    ELSE IF next_page(timeline, net).ret.tag = "Err"
    THEN [timeline |-> next_page(timeline, net).page,
          result |-> Err("Couldn't get next page", "transport"),
          ret |-> RetErr,
          events |-> <<>>]
    ELSE [timeline |-> next_page(timeline, net).page,
          result |-> Ok,
          ret |-> next_page(timeline, net).ret,
          events |-> <<Event("info", "loaded next page", "", "", <<timeline.next.id>>)>>
                     \o log_page_items(next_page(timeline, net).ret)]

\* load_prev_page that takes the link out of the Page before following it: a
\* request that returns no data leaves the Page without its prev link.
load_prev_page_take(timeline, net) ==
    IF timeline.prev = None
    THEN [timeline |-> timeline,
          result |-> Err("no prev page", "none"),
          ret |-> RetErr,
          events |-> <<>>]
    ELSE IF prev_page(timeline, net).ret.tag = "Err"
    THEN [timeline |-> prev_page(timeline, net).page,
          result |-> Err("Couldn't get prev page", "transport"),
          ret |-> RetErr,
          events |-> <<>>]
    ELSE [timeline |-> IF prev_page(timeline, net).ret.tag = "None"
                       THEN [timeline EXCEPT !.prev = None]
                       ELSE prev_page(timeline, net).page,
          result |-> Ok,
          ret |-> prev_page(timeline, net).ret,
          events |-> <<Event("info", "loaded prev page", "", "", <<timeline.prev.id>>)>>
                     \o log_page_items(prev_page(timeline, net).ret)]

\* load_prev_page
load_prev_page(timeline, net) ==
    IF timeline.prev = None
    THEN [timeline |-> timeline,
          result |-> Err("no prev page", "none"),
          ret |-> RetErr,
          events |-> <<>>]
    ELSE IF prev_page(timeline, net).ret.tag = "Err"
    THEN [timeline |-> prev_page(timeline, net).page,
          result |-> Err("Couldn't get prev page", "transport"),
          ret |-> RetErr,
          events |-> <<>>]
    ELSE [timeline |-> prev_page(timeline, net).page,
          result |-> Ok,
          ret |-> prev_page(timeline, net).ret,
          events |-> <<Event("info", "loaded prev page", "", "", <<timeline.prev.id>>)>>
                     \o log_page_items(prev_page(timeline, net).ret)]

\* The link a call follows, and the call itself.
Locator(dir, timeline) == IF dir = "next" THEN timeline.next ELSE timeline.prev

load_page(dir, timeline, net) ==
    IF dir = "next" THEN load_next_page(timeline, net) ELSE load_prev_page(timeline, net)

\* ------------------------------------------------------ the credential store

\* mastodon_async::Data: the server, the client registered with it and the
\* access token.
NoData == [base |-> "", client_id |-> "", client_secret |-> "", redirect |-> "",
           token |-> ""]

Data(b, t) ==
    [base |-> b, client_id |-> "client", client_secret |-> "secret",
     redirect |-> "urn:ietf:wg:oauth:2.0:oob", token |-> t]

\* The keys of a Data in credentials.toml, in the order they are written.
DataKeys == <<"base", "client_id", "client_secret", "redirect", "token">>

\* toml::to_file: the document written for a Data, a line per key.
to_toml(d) == [i \in DOMAIN DataKeys |-> <<DataKeys[i], d[DataKeys[i]]>>]

\* The value of key k in a document.
ValueOf(doc, k) == doc[CHOOSE i \in DOMAIN doc : doc[i][1] = k][2]

\* toml::from_file on a document that holds every key: the Data read back.
from_toml(doc) ==
    [base |-> ValueOf(doc, "base"),
     client_id |-> ValueOf(doc, "client_id"),
     client_secret |-> ValueOf(doc, "client_secret"),
     redirect |-> ValueOf(doc, "redirect"),
     token |-> ValueOf(doc, "token")]

\* credentials.toml in the config folder: absent, unparsable, or the
\* document of a Data.
NoFile == [state |-> "absent", data |-> <<>>]

CorruptFile == [state |-> "corrupt", data |-> <<>>]

ValidFile(d) == [state |-> "valid", data |-> to_toml(d)]

\* config_folder: ProjectDirs::from is None without a home directory.
config_folder(hasHome) ==
    IF hasHome THEN Ok ELSE Err("Couldn't determine config folder path", "nohome")

\* load_credentials
load_credentials(hasHome, f) ==
    IF config_folder(hasHome).tag = "Err"
    THEN [result |-> config_folder(hasHome), data |-> NoData]
    ELSE IF f.state = "absent"
    THEN [result |-> Err("cannot load file", "NotFound"), data |-> NoData]
    ELSE IF f.state = "corrupt"
    THEN [result |-> Err("cannot load file", "Corrupt"), data |-> NoData]
    ELSE [result |-> Ok, data |-> from_toml(f.data)]

\* save_credentials that joins another file name than load_credentials: the
\* file load_credentials reads is left as it was.
save_credentials_elsewhere(hasHome, dirOk, writeOk, torn, f, client) ==
    IF config_folder(hasHome).tag = "Err"
    THEN [result |-> config_folder(hasHome), file |-> f]
    ELSE IF ~dirOk
    THEN [result |-> Err("Can't create config folder", "IOError"), file |-> f]
    ELSE IF ~writeOk
    THEN [result |-> Err("cannot save file", "IOError"), file |-> f]
    ELSE [result |-> Ok, file |-> f]

\* save_credentials: the result and the file it leaves. A write that fails
\* has opened the file with truncate: the file is left as it was (the open
\* failed) or unparsable (the write failed midway).
save_credentials(hasHome, dirOk, writeOk, torn, f, client) ==
    IF config_folder(hasHome).tag = "Err"
    THEN [result |-> config_folder(hasHome), file |-> f]
    ELSE IF ~dirOk
    THEN [result |-> Err("Can't create config folder", "IOError"), file |-> f]
    ELSE IF ~writeOk
    THEN [result |-> Err("cannot save file", "IOError"),
          file |-> IF torn THEN CorruptFile ELSE f]
    ELSE [result |-> Ok, file |-> ValidFile(client)]

\* ------------------------------------------------------ the authorization

NoRegistration == [base |-> "", client_id |-> ""]

\* authenticate up to its await: the authorize URL, the browser, then
\* helpers::cli::authenticate prints the URL and reads the code from stdin.
\* Ok: the code is there and the exchange request is sent.
authenticate_open(urlOk, browserOk, codeOk) ==
    IF ~urlOk THEN Err("Couldn't get authorize URL", "url")
    ELSE IF ~browserOk THEN Err("opening browser", "BrowserOpenError")
    ELSE IF ~codeOk THEN Err("Couldn't authenticate", "io")
    ELSE Ok

\* ------------------------------------------------------------ control flow

\* The calls show_timeline makes after load_home_timeline, lines 198, 204, 209.
ShowTimelineScript == <<"prev", "next", "prev">>

\* show_timeline without the `?`: it goes on after a call that failed.
show_timeline_goes_on(i, n, result) ==
    IF i = n
    THEN [pc |-> "returned", run |-> Ok, step |-> i]
    ELSE [pc |-> "advance", run |-> Running, step |-> i + 1]

\* show_timeline: where it goes after call i of n returned result (call 0 is
\* load_home_timeline): every call is followed by `?`.
show_timeline(i, n, result) ==
    IF result.tag = "Err"
    THEN [pc |-> "returned", run |-> result, step |-> i]
    ELSE IF i = n
    THEN [pc |-> "returned", run |-> Ok, step |-> i]
    ELSE [pc |-> "advance", run |-> Running, step |-> i + 1]

\* run that saves the credentials it loaded.
run_saves_loaded(stepName, result) ==
    IF stepName = "load"
    THEN [pc |-> IF result.tag = "Ok" THEN "save" ELSE "server_name", run |-> Running]
    ELSE IF result.tag = "Err"
    THEN [pc |-> "returned", run |-> result]
    ELSE [pc |-> CASE stepName = "get_server_name" -> "register"
                   [] stepName = "register" -> "authenticate"
                   [] stepName = "authenticate" -> "save"
                   [] stepName = "save" -> "verify"
                   [] stepName = "verify" -> "timeline"
                   [] OTHER -> "returned",
          run |-> IF stepName = "show_timeline" THEN Ok ELSE Running]

\* run that drops the result of save_credentials (no `?` on line 99).
run_ignores_save(stepName, result) ==
    IF stepName = "load"
    THEN [pc |-> IF result.tag = "Ok" THEN "verify" ELSE "server_name", run |-> Running]
    ELSE IF result.tag = "Err" /\ stepName # "save"
    THEN [pc |-> "returned", run |-> result]
    ELSE [pc |-> CASE stepName = "get_server_name" -> "register"
                   [] stepName = "register" -> "authenticate"
                   [] stepName = "authenticate" -> "save"
                   [] stepName = "save" -> "verify"
                   [] stepName = "verify" -> "timeline"
                   [] OTHER -> "returned",
          run |-> IF stepName = "show_timeline" THEN Ok ELSE Running]

\* run without the `?` of line 103: the timeline is read whatever
\* verify_credentials returned.
run_ignores_verify(stepName, result) ==
    IF stepName = "load"
    THEN [pc |-> IF result.tag = "Ok" THEN "verify" ELSE "server_name", run |-> Running]
    ELSE IF result.tag = "Err" /\ stepName # "verify"
    THEN [pc |-> "returned", run |-> result]
    ELSE [pc |-> CASE stepName = "get_server_name" -> "register"
                   [] stepName = "register" -> "authenticate"
                   [] stepName = "authenticate" -> "save"
                   [] stepName = "save" -> "verify"
                   [] stepName = "verify" -> "timeline"
                   [] OTHER -> "returned",
          run |-> IF stepName = "show_timeline" THEN Ok ELSE Running]

\* run: where it goes after a step returned result. Only the result of
\* load_credentials is matched; every other call is followed by `?`.
run(stepName, result) ==
    IF stepName = "load"
    THEN [pc |-> IF result.tag = "Ok" THEN "verify" ELSE "server_name", run |-> Running]
    ELSE IF result.tag = "Err"
    THEN [pc |-> "returned", run |-> result]
    ELSE [pc |-> CASE stepName = "get_server_name" -> "register"
                   [] stepName = "register" -> "authenticate"
                   [] stepName = "authenticate" -> "save"
                   [] stepName = "save" -> "verify"
                   [] stepName = "verify" -> "timeline"
                   [] OTHER -> "returned",
          run |-> IF stepName = "show_timeline" THEN Ok ELSE Running]

\* ------------------------------------------------------------------ state

VARIABLES
    pc,           \* where main / run / show_timeline stands
    home,         \* the environment: whether a config folder can be determined
    file,         \* credentials.toml
    server,       \* server_name
    registration, \* the Registered of register
    mastodon,     \* the client's Data
    timeline,     \* the Page<Status> of show_timeline
    items,        \* the items of the page last loaded with data
    inflight,     \* the remote calls sent and not yet answered
    newest,       \* the server's feed is 1..newest
    grown,        \* how often the feed grew
    policy,       \* the server's link policy
    script,       \* the calls show_timeline makes after the initial load
    step,         \* the call of the script show_timeline stands at
    trace,        \* history: the steps completed, with their results
    log,          \* the events logged
    runResult,    \* what run() returned
    mainResult    \* what main() returned

vars == <<pc, home, file, server, registration, mastodon, timeline, items,
          inflight, newest, grown, policy, script, step, trace, log,
          runResult, mainResult>>

\* The cursor a caller sees: the items last loaded and the two links.
Cursor(page, its) == [items |-> its, next |-> page.next, prev |-> page.prev]

\* A completed step: its result, what the Page returned to it, whether it
\* sent a remote call and whether that call failed, the cursor before and
\* after it, the feed when it completed and the client's Data it ran with
\* (for load_credentials and authenticate: the Data it produced).
Done(name, res, ret, wasSent, netFailed, before, after) ==
    [step |-> name, result |-> res, ret |-> ret, sent |-> wasSent,
     failed |-> netFailed, before |-> before, after |-> after, feed |-> newest,
     data |-> mastodon]

Request(name, loc) == [call |-> name, url |-> loc]

NoNet == [fail |-> FALSE, newest |-> 0, policy |-> "always"]

Net(fails) == [fail |-> fails, newest |-> newest, policy |-> policy]

\* All sequences over {"next", "prev"} of length 1..MaxScript.
Scripts == UNION {[1..n -> {"next", "prev"}] : n \in 1..MaxScript}

StoredFiles == {NoFile, CorruptFile} \cup {ValidFile(Data(b, "stored")) : b \in Servers}

\* main before setup_logging: any credential file, any feed.
Init ==
    /\ pc = "main"
    /\ home \in BOOLEAN
    /\ file \in StoredFiles
    /\ server = ""
    /\ registration = NoRegistration
    /\ mastodon = NoData
    /\ timeline = NoPage
    /\ items = <<>>
    /\ inflight = {}
    /\ newest \in 0..MaxFeed
    /\ grown = 0
    /\ policy \in {"always", "bounded"}
    /\ script = ShowTimelineScript
    /\ step = 0
    /\ trace = <<>>
    /\ log = <<>>
    /\ runResult = Running
    /\ mainResult = Running

\* show_timeline called with a client, making any sequence of calls.
InitCursor ==
    /\ pc = "timeline"
    /\ home = TRUE
    /\ file = ValidFile(Data("a.example", "stored"))
    /\ server = ""
    /\ registration = NoRegistration
    /\ mastodon = Data("a.example", "stored")
    /\ timeline = NoPage
    /\ items = <<>>
    /\ inflight = {}
    /\ newest \in 0..MaxFeed
    /\ grown = 0
    /\ policy \in {"always", "bounded"}
    /\ script \in Scripts
    /\ step = 0
    /\ trace = <<>>
    /\ log = <<>>
    /\ runResult = Running
    /\ mainResult = Running

\* ------------------------------------------------------------- show_timeline

\* The frame of the steps of show_timeline.
BootstrapUnchanged == UNCHANGED <<home, file, server, registration, mastodon>>

\* line 190: load_home_timeline sends the request without a locator.
TimelineCall ==
    /\ pc = "timeline"
    /\ inflight' = inflight \cup {Request("initial", None)}
    /\ pc' = "timeline_wait"
    /\ BootstrapUnchanged
    /\ UNCHANGED <<timeline, items, newest, grown, policy, script, step, trace,
                   log, runResult, mainResult>>

\* lines 190-192: the answer; the initial page and its links are logged.
TimelineRet ==
    /\ pc = "timeline_wait"
    /\ \E fails \in BOOLEAN :
        LET r == load_home_timeline(Net(fails))
            to == show_timeline(0, Len(script), r.result)
        IN  /\ timeline' = r.timeline
            /\ items' = IF r.ret.tag = "Some" THEN r.ret.items ELSE items
            /\ inflight' = inflight \ {Request("initial", None)}
            /\ log' = log \o r.events
                          \o (IF r.result.tag = "Ok" THEN log_page_links(r.timeline) ELSE <<>>)
                          \o ErrEvents(<<"initial", "home", "run">>, r.result)
            /\ trace' = Append(trace, Done("initial", r.result, r.ret, TRUE, fails,
                                           Cursor(timeline, items),
                                           Cursor(timeline', items')))
            /\ pc' = to.pc
            /\ step' = to.step
            /\ runResult' = to.run
    /\ BootstrapUnchanged
    /\ UNCHANGED <<newest, grown, policy, script, mainResult>>

\* What a completed load_next_page / load_prev_page leaves: r is what the
\* function returned, wasSent whether it sent a request.
Advanced(dir, r, wasSent, netFailed) ==
    LET to == show_timeline(step, Len(script), r.result)
    IN  /\ timeline' = r.timeline
        /\ items' = IF r.ret.tag = "Some" THEN r.ret.items ELSE items
        /\ log' = log \o r.events
                      \o (IF r.result.tag = "Ok" THEN log_page_links(r.timeline) ELSE <<>>)
                      \o ErrEvents(<<dir, "home", "run">>, r.result)
        /\ trace' = Append(trace, Done(dir, r.result, r.ret, wasSent, netFailed,
                                       Cursor(timeline, items),
                                       Cursor(timeline', items')))
        /\ pc' = to.pc
        /\ step' = to.step
        /\ runResult' = to.run

\* lines 198, 204, 209: load_prev_page / load_next_page up to its await. With
\* the link absent the function returns at its first line; with the link
\* present the Page sends its request.
AdvanceCall ==
    /\ pc = "advance"
    /\ LET dir == script[step]
       IN  IF Locator(dir, timeline) = None
           THEN /\ Advanced(dir, load_page(dir, timeline, NoNet), FALSE, FALSE)
                /\ UNCHANGED inflight
           ELSE /\ inflight' = inflight \cup {Request(dir, Locator(dir, timeline))}
                /\ pc' = "advance_wait"
                /\ UNCHANGED <<timeline, items, log, trace, step, runResult>>
    /\ BootstrapUnchanged
    /\ UNCHANGED <<newest, grown, policy, script, mainResult>>

\* The answer to the Page's request; the links are logged after a success.
AdvanceRet ==
    /\ pc = "advance_wait"
    /\ LET dir == script[step]
       IN  \E fails \in BOOLEAN :
            /\ Advanced(dir, load_page(dir, timeline, Net(fails)), TRUE, fails)
            /\ inflight' = inflight \ {Request(dir, Locator(dir, timeline))}
    /\ BootstrapUnchanged
    /\ UNCHANGED <<newest, grown, policy, script, mainResult>>

\* The environment: a status is appended to the feed while the timeline is
\* being read (a feed that grew earlier is a larger initial feed).
Grow ==
    /\ pc \in {"timeline_wait", "advance", "advance_wait"}
    /\ newest < MaxFeed
    /\ grown < MaxGrow
    /\ newest' = newest + 1
    /\ grown' = grown + 1
    /\ UNCHANGED <<pc, home, file, server, registration, mastodon, timeline,
                   items, inflight, policy, script, step, trace, log,
                   runResult, mainResult>>

\* ---------------------------------------------------------------- main, run

NoRet == [tag |-> "", items |-> <<>>]

\* A step of run outside show_timeline: it leaves the cursor alone.
Stepped(name, res, wasSent, netFailed) ==
    Done(name, res, NoRet, wasSent, netFailed,
         Cursor(timeline, items), Cursor(timeline, items))

TimelineUnchanged == UNCHANGED <<timeline, items, newest, grown, policy, script, step>>

\* The events of a call of config_folder (#[instrument(err, ret)]).
ConfigFolderEvents ==
    IF config_folder(home).tag = "Ok"
    THEN <<Event("info", "config_folder", "", "", <<>>)>>
    ELSE ErrEvents(<<"config_folder">>, config_folder(home))

\* main, lines 32-33: setup_logging()?, then the first event.
SetupLogging ==
    /\ pc = "main"
    /\ \E ok \in BOOLEAN :
        IF ok
        THEN /\ pc' = "load"
             /\ log' = log \o <<Event("info", "Starting spike-mastodon", "", "", <<>>)>>
             /\ UNCHANGED mainResult
        ELSE /\ pc' = "exit"
             /\ mainResult' = Err("setup_logging", "io")
             /\ UNCHANGED log
    /\ TimelineUnchanged
    /\ UNCHANGED <<home, file, server, registration, mastodon, inflight, trace, runResult>>

\* run, lines 92-95: load_credentials and the match on its result.
LoadCredentials ==
    /\ pc = "load"
    /\ LET r == load_credentials(home, file)
           to == run("load", r.result)
       IN  /\ mastodon' = r.data
           /\ log' = log \o ConfigFolderEvents
                         \o ErrEvents(<<"load_credentials">>, r.result)
                         \o (IF r.result.tag = "Err"
                             THEN <<Event("info",
                                          "No credentials found. This is fine if you're running this for the first time.",
                                          r.result.msg, "", <<>>)>>
                             ELSE <<>>)
           /\ trace' = Append(trace, [Stepped("load", r.result, FALSE, FALSE)
                                        EXCEPT !.data = r.data])
           /\ pc' = to.pc
           /\ runResult' = to.run
    /\ TimelineUnchanged
    /\ UNCHANGED <<home, file, server, registration, inflight, mainResult>>

\* run, line 96: get_server_name reads a line from stdin.
GetServerName ==
    /\ pc = "server_name"
    /\ \E ok \in BOOLEAN, name \in Servers :
        LET res == IF ok THEN Ok ELSE Err("failed to read input", "io")
            to == run("get_server_name", res)
        IN  /\ server' = IF ok THEN name ELSE server
            /\ log' = log \o (IF ok THEN <<Event("info", "get_server_name", "", "", <<>>)>> ELSE <<>>)
                          \o ErrEvents(<<"get_server_name", "run">>, res)
            /\ trace' = Append(trace, Stepped("get_server_name", res, FALSE, FALSE))
            /\ pc' = to.pc
            /\ runResult' = to.run
    /\ TimelineUnchanged
    /\ UNCHANGED <<home, file, registration, mastodon, inflight, mainResult>>

\* A remote call of run is sent: the caller awaits its answer.
Send(at, name, waiting) ==
    /\ pc = at
    /\ inflight' = inflight \cup {Request(name, None)}
    /\ pc' = waiting
    /\ TimelineUnchanged
    /\ UNCHANGED <<home, file, server, registration, mastodon, trace, log,
                   runResult, mainResult>>

\* register, lines 151-157: the registration request.
RegisterCall == Send("register", "register", "register_wait")

\* register, lines 158-162, and the `?` of line 97.
RegisterRet ==
    /\ pc = "register_wait"
    /\ \E fails \in BOOLEAN :
        LET res == IF fails THEN Err("Couldn't register app", "RegistrationError") ELSE Ok
            to == run("register", res)
        IN  /\ registration' = IF fails THEN registration
                               ELSE [base |-> server, client_id |-> "client"]
            /\ log' = log \o (IF fails THEN <<>>
                              ELSE <<Event("info", "registration complete", "", "", <<>>)>>)
                          \o ErrEvents(<<"register", "run">>, res)
            /\ trace' = Append(trace, Stepped("register", res, TRUE, fails))
            /\ pc' = to.pc
            /\ runResult' = to.run
    /\ inflight' = inflight \ {Request("register", None)}
    /\ TimelineUnchanged
    /\ UNCHANGED <<home, file, server, mastodon, mainResult>>

\* authenticate, lines 167-172, up to the await of the code exchange.
Authenticate ==
    /\ pc = "authenticate"
    /\ \E urlOk \in BOOLEAN, browserOk \in BOOLEAN, codeOk \in BOOLEAN :
        LET res == authenticate_open(urlOk, browserOk, codeOk)
            to == run("authenticate", res)
        IN  IF res.tag = "Ok"
            THEN /\ inflight' = inflight \cup {Request("exchange", None)}
                 /\ pc' = "authenticate_wait"
                 /\ UNCHANGED <<log, trace, runResult>>
            ELSE /\ log' = log \o ErrEvents(<<"authenticate", "run">>, res)
                 /\ trace' = Append(trace, Stepped("authenticate", res, FALSE, FALSE))
                 /\ pc' = to.pc
                 /\ runResult' = to.run
                 /\ UNCHANGED inflight
    /\ TimelineUnchanged
    /\ UNCHANGED <<home, file, server, registration, mastodon, mainResult>>

\* authenticate, lines 172-175: the answer to the code exchange.
AuthenticateRet ==
    /\ pc = "authenticate_wait"
    /\ \E fails \in BOOLEAN :
        LET res == IF fails THEN Err("Couldn't authenticate", "ExchangeError") ELSE Ok
            to == run("authenticate", res)
        IN  /\ mastodon' = IF fails THEN mastodon ELSE Data(registration.base, "granted")
            /\ log' = log \o (IF fails THEN <<>>
                              ELSE <<Event("info", "authentication succeeded", "", "", <<>>)>>)
                          \o ErrEvents(<<"authenticate", "run">>, res)
            /\ trace' = Append(trace, [Stepped("authenticate", res, TRUE, fails)
                                         EXCEPT !.data = mastodon'])
            /\ pc' = to.pc
            /\ runResult' = to.run
    /\ inflight' = inflight \ {Request("exchange", None)}
    /\ TimelineUnchanged
    /\ UNCHANGED <<home, file, server, registration, mainResult>>

\* run, line 99: save_credentials.
SaveCredentials ==
    /\ pc = "save"
    /\ \E dirOk \in BOOLEAN, writeOk \in BOOLEAN, torn \in BOOLEAN :
        LET r == save_credentials(home, dirOk, writeOk, torn, file, mastodon)
            to == run("save", r.result)
        IN  /\ file' = r.file
            /\ log' = log \o ConfigFolderEvents
                          \o ErrEvents(<<"save_credentials", "run">>, r.result)
            /\ trace' = Append(trace, Stepped("save", r.result, FALSE, FALSE))
            /\ pc' = to.pc
            /\ runResult' = to.run
    /\ TimelineUnchanged
    /\ UNCHANGED <<home, server, registration, mastodon, inflight, mainResult>>

\* verify_credentials spawned instead of awaited: run goes on to
\* show_timeline while the request is outstanding.
VerifyCall_spawned == Send("verify", "verify", "timeline")

\* verify_credentials, lines 180-182: the request.
VerifyCall == Send("verify", "verify", "verify_wait")

\* verify_credentials, lines 183-185, and the `?` of line 103.
VerifyRet ==
    /\ pc = "verify_wait"
    /\ \E fails \in BOOLEAN :
        LET res == IF fails THEN Err("Couldn't get account", "transport") ELSE Ok
            to == run("verify", res)
        IN  /\ log' = log \o (IF fails THEN <<>>
                              ELSE <<Event("info", "verified credentials", "", "", <<>>)>>)
                          \o ErrEvents(<<"verify_credentials", "run">>, res)
            /\ trace' = Append(trace, Stepped("verify", res, TRUE, fails))
            /\ pc' = to.pc
            /\ runResult' = to.run
    /\ inflight' = inflight \ {Request("verify", None)}
    /\ TimelineUnchanged
    /\ UNCHANGED <<home, file, server, registration, mastodon, mainResult>>

\* main with `run().await?`: the error of run becomes the result of main.
MainExit_propagates ==
    /\ pc = "returned"
    /\ log' = log
    /\ mainResult' = runResult
    /\ pc' = "exit"
    /\ TimelineUnchanged
    /\ UNCHANGED <<home, file, server, registration, mastodon, inflight, trace, runResult>>

\* main, lines 34-37: the error of run is logged (with Debug, which prints
\* the chain of causes) and main returns Ok(()).
MainExit ==
    /\ pc = "returned"
    /\ log' = log \o (IF runResult.tag = "Err"
                      THEN <<Event("error", "error", runResult.msg, runResult.cause, <<>>)>>
                      ELSE <<>>)
    /\ mainResult' = Ok
    /\ pc' = "exit"
    /\ TimelineUnchanged
    /\ UNCHANGED <<home, file, server, registration, mastodon, inflight, trace, runResult>>

Next ==
    \/ SetupLogging
    \/ LoadCredentials
    \/ GetServerName
    \/ RegisterCall
    \/ RegisterRet
    \/ Authenticate
    \/ AuthenticateRet
    \/ SaveCredentials
    \/ VerifyCall
    \/ VerifyRet
    \/ TimelineCall
    \/ TimelineRet
    \/ AdvanceCall
    \/ AdvanceRet
    \/ Grow
    \/ MainExit

\* One run of the program.
Spec == Init /\ [][Next]_vars

\* One run in which every call the program awaits returns: the runtime
\* resumes main whenever a step of it can be taken.
SpecLive == Spec /\ WF_vars(Next)

\* The program is started again after it ended: the process state is new
\* (the log files are created anew by setup_logging), the credential file
\* and the server stay. The history starts over with one entry that tells
\* what save_credentials did in the run before: its result (Running when
\* it was not called) and the Data it was called with.
Restart ==
    /\ pc = "exit"
    /\ pc' = "main"
    /\ server' = ""
    /\ registration' = NoRegistration
    /\ mastodon' = NoData
    /\ timeline' = NoPage
    /\ items' = <<>>
    /\ step' = 0
    /\ log' = <<>>
    /\ runResult' = Running
    /\ mainResult' = Running
    /\ trace' = LET saves == {i \in DOMAIN trace : trace[i].step = "save"}
                IN  IF saves = {}
                    THEN <<Stepped("restart", Running, FALSE, FALSE)>>
                    ELSE <<[Stepped("restart", trace[CHOOSE i \in saves : TRUE].result,
                                    FALSE, FALSE)
                            EXCEPT !.data = trace[CHOOSE i \in saves : TRUE].data]>>
    /\ UNCHANGED <<home, file, inflight, newest, grown, policy, script>>

NextRuns == Next \/ Restart

\* The program run any number of times on the same machine.
SpecRuns == Init /\ [][NextRuns]_vars

NextCursor == TimelineCall \/ TimelineRet \/ AdvanceCall \/ AdvanceRet \/ Grow

\* show_timeline making any sequence of calls on any feed.
SpecCursor == InitCursor /\ [][NextCursor]_vars

\* ------------------------------------------------------------------ claims

\* The completed calls of load_next_page / load_prev_page.
Advances == {i \in DOMAIN trace : trace[i].step \in {"next", "prev"}}

\* Call i was made with the link of its direction absent.
AtBoundary(i) == Locator(trace[i].step, trace[i].before) = None

\* C1: load_next_page / load_prev_page called while the link of its direction
\* is absent returns success, never an error.
C1_BoundaryReturnsSuccess ==
    \A i \in Advances : AtBoundary(i) => trace[i].result.tag = "Ok"

\* C2: load_next_page / load_prev_page called while the link of its direction
\* is absent sends no request and leaves the items and both links as they
\* were.
C2_BoundaryLeavesCursor ==
    \A i \in Advances :
        AtBoundary(i) => /\ ~trace[i].sent
                         /\ trace[i].after = trace[i].before

\* C2's case: load_prev_page on a page with items and a next link but no
\* prev link.
C2_Witness ==
    \E i \in Advances :
        /\ trace[i].step = "prev"
        /\ AtBoundary(i)
        /\ trace[i].before.items # <<>>
        /\ trace[i].before.next # None

\* C3: when the link is present and the request fails, the call returns an
\* error to its caller and the items and both links are what they were
\* before the call.
C3_FetchErrorLeavesCursor ==
    \A i \in Advances :
        (trace[i].sent /\ trace[i].failed) =>
            /\ trace[i].result.tag = "Err"
            /\ trace[i].result.cause = "transport"
            /\ trace[i].after = trace[i].before

\* C3's case: a request of a later page failed, on a cursor that has items
\* and both links.
C3_Witness ==
    \E i \in Advances :
        /\ trace[i].sent
        /\ trace[i].failed
        /\ trace[i].before.items # <<>>
        /\ trace[i].before.next # None
        /\ trace[i].before.prev # None

\* The first three steps were the initial load, load_next_page and
\* load_prev_page, all of them successful.
RoundTrip ==
    /\ Len(trace) >= 3
    /\ trace[1].step = "initial"
    /\ trace[2].step = "next"
    /\ trace[3].step = "prev"
    /\ \A i \in 1..3 : trace[i].result.tag = "Ok"

\* The feed did not change between the initial load and step i.
Stationary(i) == trace[i].feed = trace[1].feed

\* C4: with a stationary feed, the initial load, then load_next_page, then
\* load_prev_page end with the items of the initial page.
C4_RoundTrip ==
    (RoundTrip /\ Stationary(3)) => trace[3].after.items = trace[1].after.items

\* C4's case: the round trip went to another page and came back.
C4_Witness ==
    /\ RoundTrip
    /\ Stationary(3)
    /\ trace[2].ret.tag = "Some"
    /\ trace[3].ret.tag = "Some"
    /\ trace[2].after.items # trace[1].after.items

\* Steps i and i+1 were two successful calls of load_next_page, the first
\* of which loaded a page and left a next link.
TwiceNext(i) ==
    /\ i + 1 \in DOMAIN trace
    /\ trace[i].step = "next"
    /\ trace[i + 1].step = "next"
    /\ trace[i].result.tag = "Ok"
    /\ trace[i + 1].result.tag = "Ok"
    /\ trace[i].ret.tag = "Some"
    /\ trace[i].after.next # None

\* C5: when load_next_page loaded a page and left a next link, a second
\* load_next_page right after it requests another page than the first did
\* and does not return the first page's items again.
C5_SecondNextMovesOn ==
    \A i \in DOMAIN trace :
        TwiceNext(i) =>
            /\ trace[i + 1].sent
            /\ trace[i + 1].before.next # trace[i].before.next
            /\ trace[i + 1].ret # trace[i].ret

\* C5's case: two calls of load_next_page in a row that both loaded a page.
C5_Witness ==
    \E i \in DOMAIN trace : TwiceNext(i) /\ trace[i + 1].ret.tag = "Some"

\* The steps of the trace named name.
StepsOf(name) == {i \in DOMAIN trace : trace[i].step = name}

\* run() has returned.
RunOver == runResult.tag # "Running"

\* C6: in authenticate a failure to open the browser is not fatal: the flow
\* goes on to the code and its exchange, so authenticate never returns the
\* browser's error.
C6_BrowserOpenNonFatal ==
    \A i \in StepsOf("authenticate") : trace[i].result.cause # "BrowserOpenError"

\* An event of the log tells that the stored credential is unreadable.
CorruptionReported == \E k \in DOMAIN log : log[k].cause = "Corrupt"

\* C7: a load that fails because the file cannot be parsed is handled apart
\* from a missing file: it does not start the registration as if the
\* credential were absent, unless a diagnostic tells the corruption.
C7_CorruptHandledDistinctly ==
    \A i \in StepsOf("load") :
        (trace[i].result.cause = "Corrupt" /\ StepsOf("get_server_name") # {})
            => CorruptionReported

\* C8: the credential store is read exactly once, before any other step, and
\* written at most once; it is written only after a failed load followed by a
\* successful register and a successful authenticate, in that order; after a
\* successful load there is no registration, authentication or save.
C8_LoadOnceSaveOnce ==
    /\ trace # <<>> => trace[1].step = "load"
    /\ Cardinality(StepsOf("load")) <= 1
    /\ RunOver => Cardinality(StepsOf("load")) = 1
    /\ Cardinality(StepsOf("save")) <= 1
    /\ \A s \in StepsOf("save") :
        \E r \in StepsOf("register"), a \in StepsOf("authenticate") :
            /\ trace[1].result.tag = "Err"
            /\ 1 < r /\ r < a /\ a < s
            /\ trace[r].result.tag = "Ok"
            /\ trace[a].result.tag = "Ok"
    /\ (trace # <<>> /\ trace[1].result.tag = "Ok") =>
            /\ StepsOf("get_server_name") = {}
            /\ StepsOf("register") = {}
            /\ StepsOf("authenticate") = {}
            /\ StepsOf("save") = {}
            /\ pc \notin {"server_name", "register", "register_wait",
                          "authenticate", "authenticate_wait", "save"}

\* C8's case: a run that found no credentials, registered, authenticated,
\* wrote the file and ended.
C8_Witness ==
    /\ pc = "exit"
    /\ \E s \in StepsOf("save") : trace[s].result.tag = "Ok"
    /\ file = ValidFile(mastodon)

\* C9: a failure of register, authenticate or save ends the run: it is the
\* last step, run returns its error, and nothing is sent afterwards.
C9_BootstrapFailureAborts ==
    \A i \in DOMAIN trace :
        (trace[i].step \in {"register", "authenticate", "save"} /\ trace[i].result.tag = "Err")
            => /\ i = Len(trace)
               /\ RunOver
               /\ runResult = trace[i].result
               /\ inflight = {}

\* C9's case: save_credentials failed and the run ended without a request
\* for the timeline.
C9_Witness ==
    /\ pc = "exit"
    /\ \E i \in StepsOf("save") : trace[i].result.tag = "Err"
    /\ StepsOf("initial") = {}

SavedBefore ==
    /\ trace # <<>>
    /\ trace[1].step = "restart"
    /\ trace[1].result.tag = "Ok"

C12_NoDeadEnd ==
    \A i \in Advances :
        (AtBoundary(i) /\ trace[i].step = "prev" /\ trace[i].before.next # None)
            => /\ runResult.tag # "Err"
               /\ (Len(trace) > i => trace[i + 1].sent)

\* The step of the initial load.
InitialStep == CHOOSE i \in DOMAIN trace : trace[i].step = "initial"

\* The "page links" events of the log, in order.
IsPageLinks(e) == e.msg = "page links"

PageLinks == SelectSeq(log, IsPageLinks)

\* show_timeline made all its calls and returned Ok.
ShowTimelineDone ==
    /\ runResult.tag = "Ok"
    /\ StepsOf("initial") # {}
    /\ Len(trace) = InitialStep + Len(script)
    /\ trace[Len(trace) - 1].step = "next"
    /\ trace[Len(trace)].step = "prev"

\* The cursor after the last call is the cursor after the initial load, and
\* the links logged last are the links logged first.
BackOnInitialPage ==
    /\ trace[Len(trace)].after = trace[InitialStep].after
    /\ PageLinks[Len(PageLinks)] = PageLinks[1]

Response(i) ==
    Respond(IF trace[i].step = "initial" THEN None
            ELSE Locator(trace[i].step, trace[i].before),
            [fail |-> trace[i].failed, newest |-> trace[i].feed, policy |-> policy])

\* Step i sent its request and the server answered it.
Fetched(i) == trace[i].sent /\ ~trace[i].failed

GotData(i) == Fetched(i) /\ Response(i).items # <<>>

GotNoData(i) == Fetched(i) /\ Response(i).items = <<>>

\* C14: a call whose link is present and whose request succeeds with items
\* returns exactly the server's items in the server's order, and replaces both
\* links of the cursor by the response's, an absent link included.
C14_DataReplacesCursor ==
    \A i \in Advances :
        GotData(i) =>
            /\ trace[i].result = Ok
            /\ trace[i].ret = RetSome(Response(i).items)
            /\ trace[i].after = [items |-> Response(i).items,
                                 next |-> Response(i).next,
                                 prev |-> Response(i).prev]

\* C14's case: a load_next_page that received the last page: the items are
\* replaced and the next link, present before, is absent afterwards.
C14_Witness ==
    \E i \in Advances :
        /\ GotData(i)
        /\ trace[i].step = "next"
        /\ trace[i].before.next # None
        /\ trace[i].after.next = None
        /\ trace[i].after.prev # trace[i].before.prev
        /\ trace[i].after.items # trace[i].before.items

\* The steps that load pages.
Loads == {i \in DOMAIN trace : trace[i].step \in {"initial", "next", "prev"}}

IsWarn(e) == e.level = "warn"

VerifiedBefore(i) ==
    \E v \in StepsOf("verify") : v < i /\ trace[v].result = Ok

TimelineRequests == {r \in inflight : r.call \in {"initial", "next", "prev"}}

\* C17: no timeline request is sent before verify_credentials has returned
\* Ok: the initial load and every later call come after it, none is
\* outstanding or made while verification is pending, and a failed
\* verification ends run with that error and without a timeline request.
C17_VerifyBeforeTimeline ==
    /\ \A i \in Loads : VerifiedBefore(i)
    /\ (TimelineRequests # {} \/ pc \in {"timeline", "timeline_wait", "advance", "advance_wait"})
           => VerifiedBefore(Len(trace) + 1)
    /\ Request("verify", None) \in inflight => (Loads = {} /\ TimelineRequests = {})
    /\ \A v \in StepsOf("verify") :
        trace[v].result.tag = "Err" =>
            /\ v = Len(trace)
            /\ TimelineRequests = {}
            /\ runResult = trace[v].result

\* C17's case: a run that registered, was verified and then loaded the
\* timeline and followed a link.
C17_Witness ==
    /\ StepsOf("save") # {}
    /\ \E i \in Advances : trace[i].sent /\ VerifiedBefore(i)
    /\ pc = "exit"

\* C18: at most one remote call is outstanding at any moment, and one is
\* outstanding exactly while the program waits for its answer.
C18_OneCallOutstanding ==
    /\ Cardinality(inflight) <= 1
    /\ (inflight # {}) <=> (pc \in {"register_wait", "authenticate_wait", "verify_wait",
                                    "timeline_wait", "advance_wait"})

\* C18's case: the request of a load_next_page is outstanding, after the
\* requests of verification and of the initial load were answered.
C18_Witness ==
    /\ \E r \in inflight : r.call = "next"
    /\ StepsOf("verify") # {}
    /\ StepsOf("initial") # {}

\* setup_logging succeeded: the first event was logged.
SetupOk == log # <<>> /\ log[1].msg = "Starting spike-mastodon"

\* main has returned Ok(()); an error of run was logged, as the last event,
\* with its message and cause.
ReturnedOk ==
    /\ pc = "exit"
    /\ mainResult = Ok
    /\ runResult.tag # "Running"
    /\ runResult.tag = "Err" =>
           log[Len(log)] = Event("error", "error", runResult.msg, runResult.cause, <<>>)

\* C19: once setup_logging has succeeded main terminates, and it returns
\* Ok(()) whatever run returned: an error of run is logged and is not the
\* result of the process.
C19_MainReturnsOk ==
    /\ SetupOk ~> ReturnedOk
    /\ [](SetupOk /\ pc = "exit" => ReturnedOk)

\* C19's case: run failed and main has returned Ok(()).
C19_Witness ==
    /\ SetupOk
    /\ pc = "exit"
    /\ runResult.tag = "Err"
    /\ mainResult = Ok

====
